---- MODULE Spec2Model ----
(***************************************************************************)
(* A model of .devcontainer/post-create.py: the provisioning script of the *)
(* workspace.  The state is the part of the machine the script reads and   *)
(* writes (the search path, /workspaces, the reference repositories and    *)
(* their permission bits, the virtual environment), the position of main() *)
(* and what the process has printed and returned.  A behaviour is a        *)
(* sequence of runs of the script against the same machine.                *)
(***************************************************************************)
EXTENDS Integers, Sequences, FiniteSets, TLC

VARIABLES
    pc,           \* the statement of main() / install_gh() to execute next
    i,            \* index of the enclosing for loop (commands, then repos)
    run_no,       \* which run of the script this is
    prevExit,     \* exit code of the previous run, NoExit when there was none
    environ,      \* GITHUB_REPOSITORY: Unset, or a string (sequence of tokens)
    path,         \* the commands shutil.which() resolves
    debian,       \* the release marker of a Debian-derived system exists
    keyrings,     \* /etc/apt/keyrings is a directory
    workspaces,   \* /workspaces is a directory
    dirs,         \* the names under /workspaces that are directories
    repo,         \* per reference repository: Absent, or the modes of its tree
    venv,         \* the .venv directory: where it is and what it holds
    requirements, \* <root_dir>/requirements.txt is a file
    cwd,          \* the working directory of the process
    root_dir,     \* main()'s local root_dir
    steps,        \* the steps this run has executed, in order, with outcome
    exitCode,     \* NoExit while running, else the exit code of the process
    stderr,       \* the lines of the fatal message on standard error
    via,          \* how the process ended: sys.exit in error(), or a traceback
    start         \* history: the repositories and the search path this run began with

vars == <<pc, i, run_no, prevExit, environ, path, debian, keyrings, workspaces,
          dirs, repo, venv, requirements, cwd, root_dir, steps, exitCode, stderr,
          via, start>>

-----------------------------------------------------------------------------
(* Bounds of the model. *)

MaxRuns == 2

MaxEnvLen == 3

-----------------------------------------------------------------------------
(* Values. *)

NoExit == -1

\* os.environ has no GITHUB_REPOSITORY: a value no string of Tokens equals.
Unset == <<"<unset>">>

\* No path: the value of cwd and root_dir before main() sets them.
None == <<>>

\* A string is a sequence of tokens; "/" is the one separator character.
Tokens == {"owner", "/", "foo"}

DefaultName == <<"adk-agents-golden">>

RECURSIVE StringsUpTo(_)
StringsUpTo(n) ==
    IF n = 0 THEN {<<>>}
    ELSE LET S == StringsUpTo(n - 1)
         IN  S \cup {Append(s, t) : s \in {x \in S : Len(x) = n - 1}, t \in Tokens}

EnvValues == {Unset} \cup StringsUpTo(MaxEnvLen)

required == <<"git", "python3", "pip", "gh">>

Commands == {"git", "python3", "pip", "gh", "sudo", "wget", "dpkg", "apt-get"}

repos == <<"adk-python", "adk-samples", "adk-docs", "adk-python-community">>

\* A path is the sequence of its components, each a string.
workspaces_dir == << <<"workspaces">> >>

reference_dir == Append(workspaces_dir, <<"adk-reference-repos">>)

-----------------------------------------------------------------------------
(* Permission bits and the tree of a repository.  The tree has the shape   *)
(*   top/ { f, d/ { g, e/ { h } } }                                        *)
(* and a tree value gives each node its mode.                              *)

RO_DIR == \o555

RO_FILE == \o444

RW_DIR == \o755

RW_FILE == \o644

EXEC_FILE == \o755

Nodes == {"top", "f", "d", "g", "e", "h"}

DirNodes == {"top", "d", "e"}

Kids(n) ==
    CASE n = "top" -> {"f", "d"}
      [] n = "d"   -> {"g", "e"}
      [] n = "e"   -> {"h"}
      [] OTHER     -> {}

Inside == Nodes \ {"top"}

\* The owner's read bit: os.scandir of a directory needs it (the script runs
\* as an unprivileged user: it needs sudo for /etc).
CanList(mode) == (mode \div 256) % 2 = 1

\* for d in dirs: chmod(d, dmode); for f in files: chmod(f, fmode), at one root.
ChmodKids(tree, root, dmode, fmode) ==
    [n \in Nodes |->
        IF n \in Kids(root)
        THEN (IF n \in DirNodes THEN dmode ELSE fmode)
        ELSE tree[n]]

\* os.walk(path), top down: the entries of root are listed and changed, then
\* each subdirectory is walked.  root itself is never an entry of the walk,
\* and a directory that cannot be listed is skipped silently (onerror=None).
RECURSIVE walk(_, _, _, _)
RECURSIVE walkAll(_, _, _, _)
walk(tree, root, dmode, fmode) ==
    IF ~CanList(tree[root]) THEN tree
    ELSE walkAll(ChmodKids(tree, root, dmode, fmode),
                 Kids(root) \cap DirNodes, dmode, fmode)

walkAll(tree, todo, dmode, fmode) ==
    IF todo = {} THEN tree
    ELSE LET n == CHOOSE x \in todo : TRUE
         IN  walkAll(walk(tree, n, dmode, fmode), todo \ {n}, dmode, fmode)

set_permissions_flat(tree, read_only) ==
    IF read_only
    THEN ChmodKids(tree, "top", RO_DIR, RO_FILE)
    ELSE ChmodKids(tree, "top", RW_DIR, RW_FILE)

\* def set_permissions(path, read_only=True): both branches walk the tree
set_permissions(tree, read_only) ==
    IF read_only
    THEN walk(tree, "top", RO_DIR, RO_FILE)
    ELSE walk(tree, "top", RW_DIR, RW_FILE)

\* What git leaves on disk: directories 0755, files 0644 or, for a script, 0755.
FreshTrees ==
    {[n \in Nodes |-> IF n \in DirNodes THEN RW_DIR ELSE IF n = "f" THEN m ELSE RW_FILE]
        : m \in {RW_FILE, EXEC_FILE}}

\* git pull in a tree: nothing new, or a file written anew.
Pulled(tree) == {tree, [tree EXCEPT !["h"] = EXEC_FILE]}

ReadOnly(tree) ==
    \A n \in Inside : tree[n] = (IF n \in DirNodes THEN RO_DIR ELSE RO_FILE)

Writable(tree) == \E n \in Inside : (tree[n] \div 128) % 2 = 1

NoTree == [n \in Nodes |-> 0]

Absent == [exists |-> FALSE, tree |-> NoTree]

Present(tree) == [exists |-> TRUE, tree |-> tree]

-----------------------------------------------------------------------------
(* The filesystem tests of pathlib. *)

\* Path(f"/workspaces/{repo_name}"): an empty name adds no component.
PathOf(name) == IF name = <<>> THEN workspaces_dir ELSE Append(workspaces_dir, name)

is_dir(p) ==
    \/ p = workspaces_dir /\ workspaces
    \/ Len(p) = 2 /\ p[1] = workspaces_dir[1] /\ workspaces /\ p[2] \in dirs

which(cmd) == cmd \in path

-----------------------------------------------------------------------------
(* Messages.  A message is a sequence of lines, a line a sequence of words. *)

Quote(cmd) == "'" \o cmd \o "'"

NotFoundMsg_generic(cmd) ==
    << <<"Required", "command", "not", "found.", "Exiting.">> >>

NotFoundMsg(cmd) ==
    << <<"Required", "command", Quote(cmd), "not", "found.", "Exiting.">> >>

\* f"Command failed: {' '.join(cmd)}\nStdout: {e.stdout}\nStderr: {e.stderr}"
CommandFailedMsg(cmd) ==
    << <<"Command", "failed:">> \o cmd,
       <<"Stdout:", "<captured>">>,
       <<"Stderr:", "<captured>">> >>

\* f"Failed to install GitHub CLI: {e}"
InstallFailedMsg(e) ==
    << <<"Failed", "to", "install", "GitHub", "CLI:">> \o e >>

NoWorkspacesMsg ==
    << <<"/workspaces", "directory", "does", "not", "exist.", "Exiting.">> >>

NoInterpreterMsg ==
    << <<"Python", "executable", "not", "found", "in", "virtual", "environment.">> >>

\* What the interpreter prints for an exception nothing catches.
Traceback(e) ==
    << <<"Traceback", "(most", "recent", "call", "last):">>, e >>

FileNotFoundError(name) ==
    <<"FileNotFoundError:", "[Errno 2]", "No", "such", "file", "or", "directory:", Quote(name)>>

CalledProcessError(cmd) ==
    <<"Command", Quote(cmd), "returned", "non-zero", "exit", "status">>

-----------------------------------------------------------------------------
(* What every step does to the position and the output of the process. *)

goto(label) ==
    /\ pc' = label
    /\ UNCHANGED <<exitCode, stderr, via>>

error_exit0(msg) ==
    /\ stderr' = <<<<"[ERROR]">> \o Head(msg)>> \o Tail(msg)
    /\ exitCode' = 0
    /\ via' = "sys.exit"
    /\ pc' = "exited"

\* print(f"[ERROR] {msg}", file=sys.stderr); sys.exit(1)
error(msg) ==
    /\ stderr' = <<<<"[ERROR]">> \o Head(msg)>> \o Tail(msg)
    /\ exitCode' = 1
    /\ via' = "sys.exit"
    /\ pc' = "exited"

\* An exception that reaches the top of main(): traceback, exit code 1.
uncaught(e) ==
    /\ stderr' = Traceback(e)
    /\ exitCode' = 1
    /\ via' = "traceback"
    /\ pc' = "exited"

done(step, arg, ok) == steps' = Append(steps, [s |-> step, a |-> arg, ok |-> ok])

machine == <<environ, path, debian, keyrings, workspaces, dirs, repo, venv, requirements>>

-----------------------------------------------------------------------------
(* install_gh *)

\* The commands of install_gh, in order; "dpkg" is the one subprocess.check_output.
install_steps == <<"keyring", "wget", "mv", "chmod", "dpkg", "list", "update", "install">>

install_cmd(step) ==
    CASE step = "keyring" -> <<"sudo", "mkdir", "-p", "-m", "755", "/etc/apt/keyrings">>
      [] step = "wget"    -> <<"wget", "-qO", "<tmp>", "<keyring_url>">>
      [] step = "mv"      -> <<"sudo", "mv", "<tmp>", "<keyring_path>">>
      [] step = "chmod"   -> <<"sudo", "chmod", "go+r", "<keyring_path>">>
      [] step = "dpkg"    -> <<"dpkg", "--print-architecture">>
      [] step = "list"    -> <<"sudo", "mv", "<tmp>", "/etc/apt/sources.list.d/github-cli.list">>
      [] step = "update"  -> <<"sudo", "apt-get", "update">>
      [] step = "install" -> <<"sudo", "apt-get", "install", "-y", "gh">>

\* The program a command needs besides the one that is launched.
Needs(cmd) == IF cmd[1] = "sudo" THEN {cmd[2]} \cap Commands ELSE {}

install_gh_enter_always(present) ==
    /\ goto("install")
    /\ i' = 1

\* if shutil.which("gh"): return
install_gh_enter(present) ==
    IF present
    THEN /\ goto("check")
         /\ i' = 1
    ELSE /\ goto("install")
         /\ i' = 1

install_gh ==
    /\ pc = "install_gh"
    /\ install_gh_enter(which("gh"))
    /\ UNCHANGED <<start, run_no, prevExit, machine, cwd, root_dir, steps>>

install_next ==
    IF i < Len(install_steps)
    THEN /\ goto("install")
         /\ i' = i + 1
    ELSE /\ goto("check")
         /\ i' = 1

\* if not keyrings_dir.is_dir(): run(["sudo", "mkdir", ...]) is skipped
install_skip ==
    /\ pc = "install"
    /\ install_steps[i] = "keyring"
    /\ keyrings
    /\ install_next
    /\ UNCHANGED <<start, run_no, prevExit, machine, cwd, root_dir, steps>>

\* One command of install_gh that cannot be launched: the exception is
\* caught by "except Exception" and reported by error().
install_nolaunch ==
    /\ pc = "install"
    /\ ~(install_steps[i] = "keyring" /\ keyrings)
    /\ LET cmd == install_cmd(install_steps[i])
       IN  /\ ~which(cmd[1])
           /\ done("install", install_steps[i], FALSE)
           /\ error(InstallFailedMsg(FileNotFoundError(cmd[1])))
    /\ UNCHANGED <<start, i, run_no, prevExit, machine, cwd, root_dir>>

\* One command of install_gh that returns non-zero: run() reports it by
\* error(), whose SystemExit "except Exception" does not catch; the failure
\* of check_output is caught there and reported.
install_fail ==
    /\ pc = "install"
    /\ ~(install_steps[i] = "keyring" /\ keyrings)
    /\ LET cmd == install_cmd(install_steps[i])
       IN  /\ which(cmd[1])
           /\ done("install", install_steps[i], FALSE)
           /\ IF install_steps[i] = "dpkg"
              THEN error(InstallFailedMsg(CalledProcessError(cmd[1])))
              ELSE error(CommandFailedMsg(cmd))
    /\ UNCHANGED <<start, i, run_no, prevExit, machine, cwd, root_dir>>

install_ok ==
    /\ pc = "install"
    /\ ~(install_steps[i] = "keyring" /\ keyrings)
    /\ LET cmd == install_cmd(install_steps[i])
       IN  /\ which(cmd[1])
           /\ Needs(cmd) \subseteq path
    /\ done("install", install_steps[i], TRUE)
    /\ keyrings' = (keyrings \/ install_steps[i] = "keyring")
    /\ path' = (IF install_steps[i] = "install" THEN path \cup {"gh"} ELSE path)
    /\ install_next
    /\ UNCHANGED <<start, run_no, prevExit, environ, debian, workspaces, dirs, repo, venv,
                   requirements, cwd, root_dir>>

check_command_lenient(cmd, next) == goto(next)

\* if not shutil.which(cmd): error(...) else: log(...)
check_command(cmd, next) ==
    IF which(cmd) THEN goto(next) ELSE error(NotFoundMsg(cmd))

\* for cmd in ["git", "python3", "pip", "gh"]: check_command(cmd)
main_check ==
    /\ pc = "check"
    /\ done("check", required[i], which(required[i]))
    /\ check_command(required[i], IF i < Len(required) THEN "check" ELSE "workspaces")
    /\ i' = (IF which(required[i]) /\ i < Len(required) THEN i + 1 ELSE i)
    /\ UNCHANGED <<start, run_no, prevExit, machine, cwd, root_dir>>

-----------------------------------------------------------------------------
(* main: the workspace root *)

\* if not workspaces_dir.is_dir(): error(...)
main_workspaces ==
    /\ pc = "workspaces"
    /\ done("workspaces", "", is_dir(workspaces_dir))
    /\ IF is_dir(workspaces_dir) THEN goto("root") ELSE error(NoWorkspacesMsg)
    /\ UNCHANGED <<start, i, run_no, prevExit, machine, cwd, root_dir>>

\* os.environ.get("GITHUB_REPOSITORY", "adk-agents-golden")
environ_get(default) == IF environ = Unset THEN default ELSE environ

\* s.split("/")[0]
RECURSIVE split_first(_)
split_first(s) ==
    IF s = <<>> THEN <<>>
    ELSE IF Head(s) = "/" THEN <<>>
    ELSE <<Head(s)>> \o split_first(Tail(s))

\* s.split("/")[-1]: what follows the last "/" of s, all of s when it has none.
RECURSIVE split_last(_)
split_last(s) ==
    IF s = <<>> THEN <<>>
    ELSE IF s[Len(s)] = "/" THEN <<>>
    ELSE Append(split_last(SubSeq(s, 1, Len(s) - 1)), s[Len(s)])

repo_name == split_last(environ_get(DefaultName))

\* root_dir = Path(f"/workspaces/{repo_name}")
\* if not root_dir.is_dir(): root_dir = Path("/workspaces/adk-agents-golden")
select_root ==
    IF is_dir(PathOf(repo_name)) THEN PathOf(repo_name) ELSE PathOf(DefaultName)

main_root ==
    /\ pc = "root"
    /\ root_dir' = select_root
    /\ goto("chdir")
    /\ UNCHANGED <<start, i, run_no, prevExit, machine, cwd, steps>>

\* os.chdir(root_dir): nothing catches the exception of a missing directory.
chdir(next) ==
    IF is_dir(root_dir)
    THEN /\ cwd' = root_dir
         /\ goto(next)
    ELSE /\ cwd' = cwd
         /\ uncaught(FileNotFoundError("<root_dir>"))

main_chdir ==
    /\ pc = "chdir"
    /\ done("chdir", "", is_dir(root_dir))
    /\ chdir("mkdir")
    /\ UNCHANGED <<start, i, run_no, prevExit, machine, root_dir>>

\* reference_dir.mkdir(parents=True, exist_ok=True)
main_mkdir ==
    /\ pc = "mkdir"
    /\ dirs' = dirs \cup {reference_dir[2]}
    /\ done("mkdir", "", TRUE)
    /\ goto("repo")
    /\ i' = 1
    /\ UNCHANGED <<start, run_no, prevExit, environ, path, debian, keyrings, workspaces, repo,
                   venv, requirements, cwd, root_dir>>

-----------------------------------------------------------------------------
(* main: the reference repositories *)

git_clone(name) == <<"git", "clone", "https://github.com/google/" \o name, "<repo_path>">>

git_pull == <<"git", "pull">>

must_clone_always(k) == TRUE

\* if not repo_path.is_dir(): clone; else: make writable and pull
must_clone(k) == ~repo[k].exists

\* run(["git", "clone", url, str(repo_path)])
main_clone_ok ==
    /\ pc = "repo"
    /\ must_clone(i)
    /\ \E t \in FreshTrees : repo' = [repo EXCEPT ![i] = Present(t)]
    /\ done("clone", repos[i], TRUE)
    /\ goto("lock")
    /\ UNCHANGED <<start, i, run_no, prevExit, environ, path, debian, keyrings, workspaces, dirs,
                   venv, requirements, cwd, root_dir>>

\* git clone that returns non-zero leaves nothing, or a tree whose checkout failed.
main_clone_fail ==
    /\ pc = "repo"
    /\ must_clone(i)
    /\ \/ repo' = repo
       \/ \E t \in FreshTrees : repo' = [repo EXCEPT ![i] = Present(t)]
    /\ done("clone", repos[i], FALSE)
    /\ error(CommandFailedMsg(git_clone(repos[i])))
    /\ UNCHANGED <<start, i, run_no, prevExit, environ, path, debian, keyrings, workspaces, dirs,
                   venv, requirements, cwd, root_dir>>

\* else: set_permissions(repo_path, read_only=False)
main_unlock ==
    /\ pc = "repo"
    /\ ~must_clone(i)
    /\ repo' = [repo EXCEPT ![i] = Present(set_permissions(repo[i].tree, FALSE))]
    /\ done("unlock", repos[i], TRUE)
    /\ goto("pull")
    /\ UNCHANGED <<start, i, run_no, prevExit, environ, path, debian, keyrings, workspaces, dirs,
                   venv, requirements, cwd, root_dir>>

\* run(["git", "pull"], cwd=str(repo_path))
main_pull_ok ==
    /\ pc = "pull"
    /\ \E t \in Pulled(repo[i].tree) : repo' = [repo EXCEPT ![i] = Present(t)]
    /\ done("pull", repos[i], TRUE)
    /\ goto("lock")
    /\ UNCHANGED <<start, i, run_no, prevExit, environ, path, debian, keyrings, workspaces, dirs,
                   venv, requirements, cwd, root_dir>>

main_pull_fail ==
    /\ pc = "pull"
    /\ \E t \in Pulled(repo[i].tree) : repo' = [repo EXCEPT ![i] = Present(t)]
    /\ done("pull", repos[i], FALSE)
    /\ error(CommandFailedMsg(git_pull))
    /\ UNCHANGED <<start, i, run_no, prevExit, environ, path, debian, keyrings, workspaces, dirs,
                   venv, requirements, cwd, root_dir>>

\* set_permissions(repo_path, read_only=True), the last statement of the loop body
main_lock ==
    /\ pc = "lock"
    /\ repo' = [repo EXCEPT ![i] = Present(set_permissions(repo[i].tree, TRUE))]
    /\ done("lock", repos[i], TRUE)
    /\ IF i < Len(repos)
       THEN /\ goto("repo")
            /\ i' = i + 1
       ELSE /\ goto("chdir2")
            /\ i' = i
    /\ UNCHANGED <<start, run_no, prevExit, environ, path, debian, keyrings, workspaces, dirs,
                   venv, requirements, cwd, root_dir>>

main_chdir2 ==
    /\ pc = "chdir2"
    /\ done("chdir", "back", is_dir(root_dir))
    /\ chdir("venv")
    /\ UNCHANGED <<start, i, run_no, prevExit, machine, root_dir>>

-----------------------------------------------------------------------------
(* main: the virtual environment *)

venv_dir == Append(root_dir, <<".venv">>)

NoVenv == [at |-> None, holds |-> {}]

venv_is_dir == venv.at = venv_dir

python_executable == venv.at = venv_dir /\ "bin/python" \in venv.holds

venv_pip == venv.at = venv_dir /\ "bin/pip" \in venv.holds

python3_venv == <<"python3", "-m", "venv", "<venv_dir>">>

pip_upgrade == <<"<venv_dir>/bin/pip", "install", "--upgrade", "pip">>

pip_requirements == <<"<venv_dir>/bin/pip", "install", "-r", "<requirements_path>">>

\* if not venv_dir.is_dir(): run(["python3", "-m", "venv", str(venv_dir)])
main_venv_ok ==
    /\ pc = "venv"
    /\ ~venv_is_dir
    /\ venv' = [at |-> venv_dir, holds |-> {"bin/python", "bin/pip"}]
    /\ done("venv", "", TRUE)
    /\ goto("verify")
    /\ UNCHANGED <<start, i, run_no, prevExit, environ, path, debian, keyrings, workspaces, dirs,
                   repo, requirements, cwd, root_dir>>

\* python3 -m venv that returns non-zero leaves nothing, the bare directory,
\* or the directory with its interpreter and no pip (ensurepip failed).
main_venv_fail ==
    /\ pc = "venv"
    /\ ~venv_is_dir
    /\ \/ venv' = venv
       \/ \E h \in {{}, {"bin/python"}} : venv' = [at |-> venv_dir, holds |-> h]
    /\ done("venv", "", FALSE)
    /\ error(CommandFailedMsg(python3_venv))
    /\ UNCHANGED <<start, i, run_no, prevExit, environ, path, debian, keyrings, workspaces, dirs,
                   repo, requirements, cwd, root_dir>>

\* else: log("Virtual environment already exists.")
main_venv_exists ==
    /\ pc = "venv"
    /\ venv_is_dir
    /\ goto("verify")
    /\ UNCHANGED <<start, i, run_no, prevExit, machine, cwd, root_dir, steps>>

\* if not python_executable.is_file(): error(...)
main_verify ==
    /\ pc = "verify"
    /\ done("verify", "", python_executable)
    /\ IF python_executable THEN goto("upgrade") ELSE error(NoInterpreterMsg)
    /\ UNCHANGED <<start, i, run_no, prevExit, machine, cwd, root_dir>>

\* run([str(venv_dir / "bin/pip"), "install", "--upgrade", "pip"]): run() catches
\* CalledProcessError only, so a pip that is not there is an uncaught exception.
main_upgrade_ok ==
    /\ pc = "upgrade"
    /\ venv_pip
    /\ done("upgrade", "", TRUE)
    /\ goto("deps")
    /\ UNCHANGED <<start, i, run_no, prevExit, machine, cwd, root_dir>>

main_upgrade_fail ==
    /\ pc = "upgrade"
    /\ done("upgrade", "", FALSE)
    /\ IF venv_pip
       THEN error(CommandFailedMsg(pip_upgrade))
       ELSE uncaught(FileNotFoundError(pip_upgrade[1]))
    /\ UNCHANGED <<start, i, run_no, prevExit, machine, cwd, root_dir>>

\* if requirements_path.is_file(): run([... "install", "-r", ...])
main_deps_ok ==
    /\ pc = "deps"
    /\ requirements
    /\ done("deps", "", TRUE)
    /\ goto("end")
    /\ UNCHANGED <<start, i, run_no, prevExit, machine, cwd, root_dir>>

main_deps_fail ==
    /\ pc = "deps"
    /\ requirements
    /\ done("deps", "", FALSE)
    /\ error(CommandFailedMsg(pip_requirements))
    /\ UNCHANGED <<start, i, run_no, prevExit, machine, cwd, root_dir>>

\* else: log("Warning: requirements.txt not found. Skipping dependency installation.")
main_deps_skip ==
    /\ pc = "deps"
    /\ ~requirements
    /\ done("warning", "requirements.txt not found", TRUE)
    /\ goto("end")
    /\ UNCHANGED <<start, i, run_no, prevExit, machine, cwd, root_dir>>

\* main() returns: the interpreter exits with code 0.
main_end ==
    /\ pc = "end"
    /\ exitCode' = 0
    /\ via' = "return"
    /\ pc' = "exited"
    /\ UNCHANGED <<start, i, run_no, prevExit, machine, cwd, root_dir, steps, stderr>>

-----------------------------------------------------------------------------
(* The script is started: the first time, and again on the same machine. *)

Started ==
    /\ pc = "install_gh"
    /\ i = 1
    /\ cwd = None
    /\ root_dir = None
    /\ steps = <<>>
    /\ exitCode = NoExit
    /\ stderr = <<>>
    /\ via = ""

SmallSubsets(S) == {M \in SUBSET S : Cardinality(M) <= 2}

\* The tree a successful run leaves: locked below the top directory.
LockedTrees == {set_permissions(t, TRUE) : t \in FreshTrees}

\* The machines a first run starts on.  One aspect of the machine varies at a
\* time: the variable and the directories, or the commands, or the rest.  A
\* provisioned machine is one an earlier successful run has left.
Machines ==
    LET Plain(m) == /\ m.environ = Unset
                    /\ m.dirs = {DefaultName}
        Tools(m) == /\ m.missing = {}
                    /\ m.keyrings
                    /\ m.debian
    IN  {m \in [environ : EnvValues,
                dirs : SUBSET {<<"foo">>, DefaultName},
                workspaces : BOOLEAN,
                missing : SmallSubsets(Commands \ {"dpkg", "apt-get"}),
                debian : BOOLEAN,
                keyrings : BOOLEAN,
                requirements : BOOLEAN,
                provisioned : BOOLEAN] :
            /\ m.workspaces \/ m.dirs = {}
            /\ \/ Tools(m) /\ m.workspaces /\ m.requirements /\ ~m.provisioned
               \/ Tools(m) /\ ~m.workspaces /\ m.environ = Unset /\ m.requirements
                           /\ ~m.provisioned
               \/ Plain(m) /\ m.requirements /\ ~m.provisioned
               \/ Plain(m) /\ Tools(m)}

Init ==
    /\ \E m \in Machines :
        /\ environ = m.environ
        /\ workspaces = m.workspaces
        /\ debian = m.debian
        /\ path = (Commands \ m.missing) \ (IF m.debian THEN {} ELSE {"dpkg", "apt-get"})
        /\ keyrings = m.keyrings
        /\ requirements = m.requirements
        /\ IF m.provisioned
           THEN /\ dirs = m.dirs \cup {reference_dir[2]}
                /\ repo \in [1..Len(repos) -> {Present(t) : t \in LockedTrees}]
                /\ venv = [at |-> Append(PathOf(DefaultName), <<".venv">>),
                           holds |-> {"bin/python", "bin/pip"}]
           ELSE /\ dirs = m.dirs
                /\ repo = [k \in 1..Len(repos) |-> Absent]
                /\ venv = NoVenv
    /\ run_no = 1
    /\ prevExit = NoExit
    /\ start = [repo |-> repo, path |-> path]
    /\ Started

Rerun ==
    /\ pc = "exited"
    /\ run_no < MaxRuns
    /\ run_no' = run_no + 1
    /\ prevExit' = exitCode
    /\ pc' = "install_gh"
    /\ i' = 1
    /\ cwd' = None
    /\ root_dir' = None
    /\ steps' = <<>>
    /\ exitCode' = NoExit
    /\ stderr' = <<>>
    /\ via' = ""
    /\ start' = [repo |-> repo, path |-> path]
    /\ UNCHANGED machine

Next ==
    \/ install_gh \/ install_skip \/ install_nolaunch \/ install_fail \/ install_ok
    \/ main_check \/ main_workspaces \/ main_root \/ main_chdir \/ main_mkdir
    \/ main_clone_ok \/ main_clone_fail \/ main_unlock \/ main_pull_ok
    \/ main_pull_fail \/ main_lock \/ main_chdir2
    \/ main_venv_ok \/ main_venv_fail \/ main_venv_exists \/ main_verify
    \/ main_upgrade_ok \/ main_upgrade_fail
    \/ main_deps_ok \/ main_deps_fail \/ main_deps_skip \/ main_end
    \/ Rerun

Spec == Init /\ [][Next]_vars

-----------------------------------------------------------------------------
(* What the properties below read off the state. *)

Exited == pc = "exited"

Entry(step, arg, ok) == [s |-> step, a |-> arg, ok |-> ok]

Did(step, arg, ok) == \E k \in DOMAIN steps : steps[k] = Entry(step, arg, ok)

Times(step, arg) == Cardinality({k \in DOMAIN steps : steps[k].s = step /\ steps[k].a = arg})

Failed(stepset) == \E k \in DOMAIN steps : steps[k].s \in stepset /\ ~steps[k].ok

RepoIds == 1..Len(repos)

\* The modes the read-only lock stands for, below the top directory.
Locked(k) ==
    /\ repo[k].exists
    /\ \A n \in {"d", "e"} : repo[k].tree[n] = \o555
    /\ \A n \in {"f", "g", "h"} : repo[k].tree[n] = \o444

\* The run began with all four repositories in place and read-only.
StartedProvisioned ==
    \A k \in RepoIds : start.repo[k].exists /\ ReadOnly(start.repo[k].tree)

\* Between the writable toggle of repository k and its read-only toggle.
Pulling(k) == i = k /\ pc \in {"pull", "lock"}

-----------------------------------------------------------------------------
(* C1: after a run that exits with code 0, every file inside each of the   *)
(* four reference repositories has mode 0444 and every subdirectory inside *)
(* it has mode 0555, whether the run cloned the repository or pulled it.   *)
C1_ReadOnlyAfterSuccess ==
    exitCode = 0 => \A k \in RepoIds : Locked(k)

\* A successful run that cloned one repository and pulled another.
C1_Witness ==
    /\ exitCode = 0
    /\ \E k \in RepoIds : Did("clone", repos[k], TRUE)
    /\ \E k \in RepoIds : Did("pull", repos[k], TRUE)

(* C2, as stated: a repository that was read-only when the run started is  *)
(* read-only in every state of the run in which its pull is not in         *)
(* progress, the state after a fatal exit included, and no two             *)
(* repositories are writable at the same time.                             *)
C2_LockedOutsidePull ==
    /\ \A k \in RepoIds :
        (/\ start.repo[k].exists
         /\ ReadOnly(start.repo[k].tree)
         /\ ~Pulling(k)) => Locked(k)
    /\ \A j, k \in RepoIds :
        (/\ j # k
         /\ repo[j].exists
         /\ repo[k].exists) => ~(Writable(repo[j].tree) /\ Writable(repo[k].tree))

(* C3, as stated: a run against a workspace in which all four repository   *)
(* directories exist, as a successful run left them, issues no git clone,  *)
(* issues exactly one git pull per repository and ends with the same       *)
(* directories, each read-only again.                                      *)
C3_ExactlyOnePullEach ==
    (StartedProvisioned /\ Exited) =>
        \A k \in RepoIds :
            /\ Times("clone", repos[k]) = 0
            /\ Times("pull", repos[k]) = 1
            /\ Locked(k)

(* C3, amended: such a run issues no git clone and at most one git pull per *)
(* repository and keeps the four directories; every repository whose pass  *)
(* of the loop was completed was pulled exactly once and is read-only      *)
(* again, and a run that exits with code 0 completed the pass of all four. *)
C3_NoCloneOnePullWhenDone ==
    StartedProvisioned =>
        /\ \A k \in RepoIds :
            /\ Times("clone", repos[k]) = 0
            /\ Times("pull", repos[k]) <= 1
            /\ repo[k].exists
            /\ Did("lock", repos[k], TRUE) =>
                /\ Did("pull", repos[k], TRUE)
                /\ Times("pull", repos[k]) = 1
                /\ Locked(k)
        /\ exitCode = 0 => \A k \in RepoIds : Did("lock", repos[k], TRUE)

\* A second run, after a successful first one, that succeeded too.
C3_Witness ==
    /\ prevExit = 0
    /\ StartedProvisioned
    /\ exitCode = 0
    /\ \A k \in RepoIds : Times("pull", repos[k]) = 1

-----------------------------------------------------------------------------
(* The fixed order of the steps, as the claim gives it. *)

IndexIn(seq, x) == CHOOSE k \in DOMAIN seq : seq[k] = x

InstallOrder == <<"keyring", "wget", "mv", "chmod", "dpkg", "list", "update", "install">>

CheckOrder == <<"git", "python3", "pip", "gh">>

RepoOrder == <<"adk-python", "adk-samples", "adk-docs", "adk-python-community">>

RepoStepOrder == <<"unlock", "clone", "pull", "lock">>

Rank(e) ==
    CASE e.s = "install"    -> IndexIn(InstallOrder, e.a)
      [] e.s = "check"      -> 10 + IndexIn(CheckOrder, e.a)
      [] e.s = "workspaces" -> 20
      [] e.s = "chdir" /\ e.a = ""     -> 21
      [] e.s = "mkdir"      -> 22
      [] e.s \in {"unlock", "clone", "pull", "lock"}
                            -> 30 + 10 * IndexIn(RepoOrder, e.a) + IndexIn(RepoStepOrder, e.s)
      [] e.s = "chdir" /\ e.a = "back" -> 80
      [] e.s = "venv"       -> 81
      [] e.s = "verify"     -> 82
      [] e.s = "upgrade"    -> 83
      [] e.s \in {"deps", "warning"} -> 84

\* preflight 1, sync 2, virtual environment 3, installer upgrade 4, manifest 5
Phase(e) ==
    CASE Rank(e) < 30 -> 1
      [] Rank(e) < 80 -> 2
      [] Rank(e) < 83 -> 3
      [] Rank(e) = 83 -> 4
      [] OTHER        -> 5

Completed(phase) ==
    CASE phase = 1 -> /\ \A k \in DOMAIN CheckOrder : Did("check", CheckOrder[k], TRUE)
                      /\ Did("mkdir", "", TRUE)
      [] phase = 2 -> \A k \in DOMAIN RepoOrder : Did("lock", RepoOrder[k], TRUE)
      [] phase = 3 -> Did("verify", "", TRUE)
      [] phase = 4 -> Did("upgrade", "", TRUE)
      [] OTHER     -> exitCode = 0

(* C4: in every run the executed steps follow the fixed order (preflight:  *)
(* GitHub CLI install if needed, then the checks of git, python3, pip, gh; *)
(* the four repositories in list order; the virtual environment; the       *)
(* installer upgrade; the manifest install): each step comes later in that *)
(* order than the step before it, so none is executed twice; when a step   *)
(* of a phase has just run, the earlier phases have completed; and a step  *)
(* that met a fatal condition is the last step of the run.                 *)
C4_FixedOrderThenStop ==
    /\ \A k \in DOMAIN steps :
        /\ k > 1 => Rank(steps[k - 1]) < Rank(steps[k])
        /\ ~steps[k].ok => (k = Len(steps) /\ Exited /\ exitCode = 1)
    /\ steps # <<>> =>
        \A phase \in 1..4 : phase < Phase(steps[Len(steps)]) => Completed(phase)
    /\ exitCode = 0 => \A phase \in 1..4 : Completed(phase)

\* A run that got as far as the virtual environment and met a fatal condition.
C4_Witness ==
    /\ Exited
    /\ exitCode = 1
    /\ Did("lock", repos[Len(repos)], TRUE)
    /\ Failed({"venv", "verify", "upgrade", "deps"})

-----------------------------------------------------------------------------
LastStep == steps[Len(steps)]

AllPhasesDone ==
    /\ \A phase \in 1..4 : Completed(phase)
    /\ requirements => Did("deps", "", TRUE)

-----------------------------------------------------------------------------
Names(line, cmd) == \E k \in DOMAIN line : line[k] \in {cmd, "'" \o cmd \o "'"}

Missing == {k \in DOMAIN CheckOrder : CheckOrder[k] \notin path}

FirstMissing == CheckOrder[CHOOSE k \in Missing : \A j \in Missing : k <= j]

-----------------------------------------------------------------------------
HasSlash(s) == \E k \in DOMAIN s : s[k] = "/"

\* The value has the form owner/foo: Owner and Name give its two parts.
OwnerSlashName(v) ==
    \E k \in DOMAIN v :
        /\ 1 < k
        /\ k < Len(v)
        /\ v[k] = "/"
        /\ ~HasSlash(SubSeq(v, 1, k - 1))
        /\ ~HasSlash(SubSeq(v, k + 1, Len(v)))

\* What stands after the last "/" of the value; the value itself without one.
AfterLastSlash(v) ==
    IF ~HasSlash(v) THEN v
    ELSE LET k == CHOOSE j \in DOMAIN v : v[j] = "/" /\ ~HasSlash(SubSeq(v, j + 1, Len(v)))
         IN  SubSeq(v, k + 1, Len(v))

Workspaces == << <<"workspaces">> >>

Fallback == <<<<"workspaces">>, <<"adk-agents-golden">>>>

UnderWorkspaces(name) == <<<<"workspaces">>, name>>

VenvUnderCwd == venv.at # None => venv.at = Append(cwd, <<".venv">>)

\* The process has changed its directory in this run.
Changed == cwd # None

(* C7, as stated: the working directory after preflight is /workspaces/foo  *)
(* when GITHUB_REPOSITORY has the form owner/foo and /workspaces/foo is a  *)
(* directory, and /workspaces/adk-agents-golden in every other case; the   *)
(* virtual environment is created under that directory.                    *)
C7_OwnerFormOrFallback ==
    Changed =>
        /\ IF /\ environ # Unset
              /\ OwnerSlashName(environ)
              /\ AfterLastSlash(environ) \in dirs
           THEN cwd = UnderWorkspaces(AfterLastSlash(environ))
           ELSE cwd = Fallback
        /\ VenvUnderCwd

(* C7, amended: the name is what follows the last "/" of GITHUB_REPOSITORY  *)
(* (the whole value when it has no "/", adk-agents-golden when it is       *)
(* unset).  The working directory after preflight is /workspaces/<name>    *)
(* when that is a directory, which for an empty name ("" or "owner/") is   *)
(* /workspaces itself, and /workspaces/adk-agents-golden otherwise; the    *)
(* virtual environment is created under that directory.                    *)
C7_LastComponentOrFallback ==
    Changed =>
        /\ LET name == IF environ = Unset THEN <<"adk-agents-golden">>
                       ELSE AfterLastSlash(environ)
           IN  cwd = IF name = <<>> THEN Workspaces
                     ELSE IF name \in dirs THEN UnderWorkspaces(name)
                     ELSE Fallback
        /\ VenvUnderCwd

\* GITHUB_REPOSITORY=owner/foo, /workspaces/foo exists, the venv is made there.
C7_Witness ==
    /\ environ = <<"owner", "/", "foo">>
    /\ cwd = UnderWorkspaces(<<"foo">>)
    /\ venv.at = Append(cwd, <<".venv">>)

-----------------------------------------------------------------------------
(* C8, as stated: the toggle sets every directory of the tree, the          *)
(* directory given as path included, to 0755 (writable) or 0555            *)
(* (read-only), and every file to 0644 or 0444.                            *)
C8_WholeTreeIncludingPath ==
    \A k \in RepoIds :
        /\ (steps # <<>> /\ LastStep = Entry("lock", repos[k], TRUE)) =>
              /\ \A n \in {"top", "d", "e"} : repo[k].tree[n] = \o555
              /\ \A n \in {"f", "g", "h"} : repo[k].tree[n] = \o444
        /\ (steps # <<>> /\ LastStep = Entry("unlock", repos[k], TRUE)) =>
              /\ \A n \in {"top", "d", "e"} : repo[k].tree[n] = \o755
              /\ \A n \in {"f", "g", "h"} : repo[k].tree[n] = \o644

-----------------------------------------------------------------------------
InstallStepDone == \E k \in DOMAIN steps : steps[k].s = "install"

GhAtStart == "gh" \in start.path

-----------------------------------------------------------------------------
Provisioned ==
    /\ \A k \in RepoIds : Locked(k)
    /\ venv.at # None
    /\ "bin/python" \in venv.holds

(* C10, as stated: a run that follows an aborted run, and in which every    *)
(* external command succeeds, exits with code 0 in the provisioned state:  *)
(* the four repositories present and read-only, the virtual environment    *)
(* present with its interpreter.                                           *)
C10_RerunRecovers ==
    (/\ prevExit = 1
     /\ Exited
     /\ Did("mkdir", "", TRUE)
     /\ ~Failed({"install", "clone", "pull", "venv", "upgrade", "deps"})) =>
        (exitCode = 0 /\ Provisioned)

====
